---- MODULE Spec2Model ----
(***************************************************************************)
(* A model of twittcher (src/twittcher/twittcher.py): a PageWatcher that   *)
(* fetches a page, builds Tweets from it, keeps those it has not seen,     *)
(* saves them (pickle file, redis list) and passes them to an action.      *)
(*                                                                         *)
(* Python values are records tagged with their type: a Tweet object is     *)
(* [type |-> "Tweet", text, username, date, link], a str is                *)
(* [type |-> "str", value].  A path or URL is the sequence of its parts.   *)
(***************************************************************************)
EXTENDS Integers, Sequences, FiniteSets, TLC

\* ------------------------------------------------------------------ bounds
MaxNodes == 2      \* most <p> nodes, and most <a> nodes, on one page
MaxCycles == 2     \* most get_new_tweets() calls of one behaviour
MaxRestarts == 1   \* most restarts of one watcher script
MaxPageNodes == 3  \* most <p> nodes, and most <a> nodes, of a page given to
                   \* the extraction alone

\* ------------------------------------------------------------ small helpers
SeqUpTo(S, n) == UNION {[1..k -> S] : k \in 0..n}

Min(a, b) == IF a < b THEN a ELSE b

RECURSIVE Reverse(_)
Reverse(s) == IF s = <<>> THEN <<>> ELSE Append(Reverse(Tail(s)), Head(s))

None == "None"

\* ------------------------------------------------------------------- Tweet
\* Tweet.__init__(text, attrs).  An href is kept as href.split("/"), so
\* "/alice/status/1" is <<"", "alice", "status", "1">> and Python's index 1
\* is index 2 here; link is the site origin followed by href.
Tweet(text, attrs) ==
    [type     |-> "Tweet",
     text     |-> text,
     username |-> attrs.href[2],
     date     |-> attrs.title,
     link     |-> <<"https://twitter.com">> \o attrs.href]

\* hasattr(x, "link"): Tweet objects have it, str objects do not
HasLink(x) == x.type = "Tweet"

\* (mutation of TweetEq) equality of all the fields instead of the link
TweetEqWhole(self, other) ==
    IF HasLink(other)
    THEN (IF self = other THEN "True" ELSE "False")
    ELSE "AttributeError"

\* (mutation of TweetEq) the date is compared along with the link
TweetEqDated(self, other) ==
    IF HasLink(other)
    THEN (IF self.link = other.link /\ self.date = other.date THEN "True" ELSE "False")
    ELSE "AttributeError"

\* Tweet.__eq__(self, other): self.link == other.link; reading other.link
\* raises AttributeError when other has no such attribute.
TweetEq(self, other) ==
    IF HasLink(other)
    THEN (IF self.link = other.link THEN "True" ELSE "False")
    ELSE "AttributeError"

\* Tweet.__str__: the four fields laid out in a template
TweetStr(t) ==
    [type  |-> "str",
     value |-> <<t.text, "\nAuthor: ", t.username, "\nDate: ", t.date, "\nLink: ">>
               \o t.link]

RECURSIVE ListContains(_, _)
\* `el in lst` for a Tweet el: el == lst[i] for i = 0, 1, ... until one is
\* true; an exception of __eq__ ends the scan.
ListContains(lst, el) ==
    IF lst = <<>> THEN "False"
    ELSE LET r == TweetEq(el, Head(lst))
         IN IF r = "False" THEN ListContains(Tail(lst), el) ELSE r

\* -------------------------------------------------------------- extraction
\* the class markers and the URL each watcher class sets
P_class(cls) == IF cls = "UserWatcher" THEN "ProfileTweet-text" ELSE "tweet-text"

A_class(cls) == IF cls = "UserWatcher" THEN "ProfileTweet-timestamp" ELSE "tweet-timestamp"

Url(cls, name) ==
    IF cls = "UserWatcher" THEN <<"https://twitter.com/", name>>
    ELSE <<"https://twitter.com/search?f=realtime&q=", name>>

\* ("class" in n.attrs) and (marker in n.attrs["class"]); a node without a
\* class attribute is a node with class <<>>
HasClass(n, marker) == \E i \in DOMAIN n.class : n.class[i] = marker

\* texts = [p.text for p in page.findAll("p") if ...]
Texts(page, cls) ==
    LET ps == SelectSeq(page.p, LAMBDA n : HasClass(n, P_class(cls)))
    IN [i \in DOMAIN ps |-> ps[i].text]

\* attrs = [a.attrs for a in page.findAll("a") if ...]
Attrs(page, cls) == SelectSeq(page.a, LAMBDA n : HasClass(n, A_class(cls)))

\* (mutation of ZipLen) lists of different lengths are not paired at all
ZipLenStrict(texts, attrs) == IF Len(texts) = Len(attrs) THEN Len(texts) ELSE 0

\* zip(texts, attrs) stops at the shorter list
ZipLen(texts, attrs) == Min(Len(texts), Len(attrs))

\* tweets = [Tweet(txt, a) for (txt, a) in zip(texts, attrs)]
Tweets(page, cls) ==
    LET texts == Texts(page, cls)
        attrs == Attrs(page, cls)
    IN [i \in 1..ZipLen(texts, attrs) |-> Tweet(texts[i], attrs[i])]

RECURSIVE NewTweets(_, _)
\* new_tweets = [t for t in tweets if t not in self.seen_tweets], as
\* [exc, value]: the first exception of a membership test ends the scan
NewTweets(tweets, seen) ==
    IF tweets = <<>> THEN [exc |-> None, value |-> <<>>]
    ELSE LET c == ListContains(seen, Head(tweets))
         IN IF c = "AttributeError" THEN [exc |-> "AttributeError", value |-> <<>>]
            ELSE LET rest == NewTweets(Tail(tweets), seen)
                 IN IF rest.exc # None THEN rest
                    ELSE [exc   |-> None,
                          value |-> (IF c = "False" THEN <<Head(tweets)>> ELSE <<>>)
                                    \o rest.value]

\* ------------------------------------------------------------- persistence
\* (mutation of PickleObj) the object's str() is dumped in its place
PickleObjAsText(x) == [cls |-> "str", dict |-> [value |-> TweetStr(x).value]]

\* pickle.dump / pickle.load of one object: the class name and the
\* instance's attribute dictionary
PickleObj(x) ==
    IF x.type = "Tweet"
    THEN [cls  |-> "Tweet",
          dict |-> [text |-> x.text, username |-> x.username,
                    date |-> x.date, link |-> x.link]]
    ELSE [cls |-> "str", dict |-> [value |-> x.value]]

UnpickleObj(b) ==
    IF b.cls = "Tweet"
    THEN [type |-> "Tweet", text |-> b.dict.text, username |-> b.dict.username,
          date |-> b.dict.date, link |-> b.dict.link]
    ELSE [type |-> "str", value |-> b.dict.value]

\* pickle.dump(self.seen_tweets, f, protocol=pickle.HIGHEST_PROTOCOL)
PickleDump(lst) == [proto |-> 2, items |-> [i \in DOMAIN lst |-> PickleObj(lst[i])]]

\* pickle.load(f)
PickleLoad(blob) == [i \in DOMAIN blob.items |-> UnpickleObj(blob.items[i])]

NoFile == [exists |-> FALSE, blob |-> PickleDump(<<>>)]

\* (mutation of Written) the dump leaves out the last entry of the list
WrittenAllButLast(lst) ==
    [exists |-> TRUE, blob |-> PickleDump(SubSeq(lst, 1, Len(lst) - 1))]

\* what open(path, "w+") and pickle.dump leave at path
Written(lst) == [exists |-> TRUE, blob |-> PickleDump(lst)]

\* redis value encoding of an object that is no string or number: str(value)
RedisEncode(x) == IF x.type = "str" THEN x ELSE TweetStr(x)

\* (mutation of Lpush) the values take the place of the list
LpushOverwrite(lst, values) ==
    Reverse([i \in DOMAIN values |-> RedisEncode(values[i])])

\* self.redis.lpush(key, *values): each value in turn becomes the new head
Lpush(lst, values) ==
    Reverse([i \in DOMAIN values |-> RedisEncode(values[i])]) \o lst

\* self.redis.lrange(key, 0, -1)
Lrange(lst) == lst

\* ---------------------------------------------------------- the page inputs
H1 == <<"", "alice", "status", "1">>

H2 == <<"", "bob", "status", "2">>

\* the <p> and <a> nodes a page of the watched URL may hold: nodes carrying
\* the watcher's class marker, and nodes of another class.  The post at H1
\* is shown with either of two date labels.
PNodes(cls) ==
    {[class |-> <<P_class(cls)>>, text |-> "t1"],
     [class |-> <<"other">>, text |-> "t2"]}

ANodes(cls) ==
    {[class |-> <<A_class(cls)>>, href |-> H1, title |-> "d1"],
     [class |-> <<A_class(cls)>>, href |-> H1, title |-> "d2"],
     [class |-> <<A_class(cls)>>, href |-> H2, title |-> "d1"],
     [class |-> <<"other">>, href |-> H2, title |-> "d2"]}

Pages(cls) ==
    {[p |-> ps, a |-> as] : ps \in SeqUpTo(PNodes(cls), MaxNodes),
                            as \in SeqUpTo(ANodes(cls), MaxNodes)}

EmptyPage == [p |-> <<>>, a |-> <<>>]

\* what lines 79-87 extract from the pages a watcher of each class may be
\* served
UserTweets == {Tweets(page, "UserWatcher") : page \in Pages("UserWatcher")}

SearchTweets == {Tweets(page, "SearchWatcher") : page \in Pages("SearchWatcher")}

Extracted(cls) == IF cls = "UserWatcher" THEN UserTweets ELSE SearchTweets

\* ------------------------------------------------------------------- state
Procs == {1, 2}

\* the file each watcher script names as its database
DbPath(p) == IF p = 1 THEN "p1.db" ELSE "p2.db"

Paths == {DbPath(p) : p \in Procs}

Keys == {"tweets", "alice", "cats"}

\* the constructor calls a watcher script may make
WatcherArgs(cls, name, d, u, st) ==
    [cls |-> cls, name |-> name, database |-> d, redis_url |-> u, redis_settings |-> st]

ArgSet(p) ==
    {WatcherArgs("UserWatcher", "alice", None, None, None),
     WatcherArgs("UserWatcher", "alice", DbPath(p), None, None),
     WatcherArgs("UserWatcher", "alice", None, "url", None),
     WatcherArgs("UserWatcher", "alice", DbPath(p), None, "settings"),
     WatcherArgs("UserWatcher", "alice", None, "url", "settings"),
     WatcherArgs("SearchWatcher", "cats", None, None, "settings")}

VARIABLES
    args,         \* args[p]: the constructor call of process p's script
    pc,           \* pc[p]: "off", "start", "loop", "action", "dead"; for a run
                  \* of the extraction alone "page", "extracted"
    database,     \* self.database
    redis,        \* self.redis
    redis_key,    \* self.redis_key ("" while the attribute is not set)
    seen_tweets,  \* self.seen_tweets
    tweets,       \* get_new_tweets' local list of extracted Tweets
    new_tweets,   \* the list watch() iterates over
    pos,          \* the index of the next Item of new_tweets to pass on
    sent,         \* the Items this watcher has passed to self.action
    exc,          \* the exception that ended the process, or None
    disk,         \* disk[path]: the snapshot file at path
    rdb,          \* rdb[key]: the redis list at key
    saved,        \* saved[path]: seen_tweets as it was at the last dump to path
    cycles,       \* get_new_tweets() calls of the script so far
    restarts,     \* restarts of the script so far
    failed,       \* failed[p]: the links of the Items the action raised for,
                  \* kept for a watcher that has a database file
    skipped,      \* skipped[p]: the links of the Items left in new_tweets
                  \* behind an Item the action raised for, kept likewise
    page          \* page[p]: the page an extraction run works on

vars == <<args, pc, database, redis, redis_key, seen_tweets, tweets, new_tweets,
          pos, sent, exc, disk, rdb, saved, cycles, restarts, failed,
          skipped, page>>

\* ------------------------------------------------------------ construction
\* (mutation of ConfigRedis) with both given, the url is taken
ConfigRedisPreferUrl(url, settings_dict) ==
    IF url # None THEN [exc |-> None, conn |-> "from_url"]
    ELSE IF settings_dict # None THEN [exc |-> None, conn |-> "StrictRedis"]
    ELSE [exc |-> None, conn |-> None]

\* PageWatcher.config_redis(url, settings_dict) as [exc, conn]
ConfigRedis(url, settings_dict) ==
    IF url # None /\ settings_dict # None THEN [exc |-> "ValueError", conn |-> None]
    ELSE IF url # None THEN [exc |-> None, conn |-> "from_url"]
    ELSE IF settings_dict # None THEN [exc |-> None, conn |-> "StrictRedis"]
    ELSE [exc |-> None, conn |-> None]

\* the attributes of self that exist when PageWatcher.__init__ picks the
\* key: UserWatcher and SearchWatcher call it before they set username or
\* search_term
AttrsAtKeyChoice(cls) == {"action", "database", "redis", "seen_tweets"}

\* the hasattr chain that picks self.redis_key
RedisKey(attrs, a) ==
    IF "username" \in attrs THEN a.name
    ELSE IF "search_term" \in attrs THEN a.name
    ELSE "tweets"

\* seen_tweets += pickle.load(f), when the database is set and exists
LoadFile(db, d) ==
    IF db # None /\ d[db].exists THEN PickleLoad(d[db].blob) ELSE <<>>

\* (mutation of LoadCache) the redis list is not read
LoadCacheNothing(conn, key, r) == <<>>

\* seen_tweets += cached, when redis is set (lrange gives a list)
LoadCache(conn, key, r) == IF conn # None THEN Lrange(r[key]) ELSE <<>>

Construct(p) ==
    /\ pc[p] = "start"
    /\ LET a == args[p]
           c == ConfigRedis(a.redis_url, a.redis_settings)
           key == IF c.conn # None THEN RedisKey(AttrsAtKeyChoice(a.cls), a) ELSE ""
       IN IF c.exc # None
          THEN /\ exc' = [exc EXCEPT ![p] = c.exc]
               /\ pc' = [pc EXCEPT ![p] = "dead"]
               /\ UNCHANGED <<database, redis, redis_key, seen_tweets>>
          ELSE /\ database' = [database EXCEPT ![p] = a.database]
               /\ redis' = [redis EXCEPT ![p] = c.conn]
               /\ redis_key' = [redis_key EXCEPT ![p] = key]
               /\ seen_tweets' = [seen_tweets EXCEPT ![p] =
                                     LoadFile(a.database, disk) \o LoadCache(c.conn, key, rdb)]
               /\ pc' = [pc EXCEPT ![p] = "loop"]
               /\ UNCHANGED exc
    /\ UNCHANGED <<failed, skipped, page>>
    /\ UNCHANGED <<args, tweets, new_tweets, pos, sent, disk, rdb, saved, cycles, restarts>>

\* --------------------------------------------------------- get_new_tweets
\* urlopen(self.url): None, or the exception it raises
Urlopen(fetched) == IF fetched THEN None ELSE "URLError"

\* (mutation of SaveFile) the file is opened to append: the dump lands
\* after what the file holds, and pickle.load reads the first dump only
SaveFileAppend(db, d, sv, lst, fileok) ==
    IF db = None THEN [exc |-> None, disk |-> d, saved |-> sv]
    ELSE IF ~fileok THEN [exc |-> "IOError", disk |-> d, saved |-> sv]
    ELSE [exc   |-> None,
          disk  |-> [d EXCEPT ![db] = IF d[db].exists THEN d[db] ELSE Written(lst)],
          saved |-> [sv EXCEPT ![db] = lst]]

\* lines 92-95: with the database set, open(..., "w+") and pickle.dump the
\* whole list; open raising leaves the file as it was.  [exc, disk, saved]
SaveFile(db, d, sv, lst, fileok) ==
    IF db = None THEN [exc |-> None, disk |-> d, saved |-> sv]
    ELSE IF ~fileok THEN [exc |-> "IOError", disk |-> d, saved |-> sv]
    ELSE [exc   |-> None,
          disk  |-> [d EXCEPT ![db] = Written(lst)],
          saved |-> [sv EXCEPT ![db] = lst]]

\* lines 96-97: with redis set, lpush(key, *new_tweets); LPUSH without a
\* value is an error reply of the server.  [exc, rdb]
PushCache(conn, key, r, new, redisok) ==
    IF conn = None THEN [exc |-> None, rdb |-> r]
    ELSE IF ~redisok THEN [exc |-> "ConnectionError", rdb |-> r]
    ELSE IF new = <<>> THEN [exc |-> "ResponseError", rdb |-> r]
    ELSE [exc |-> None, rdb |-> [r EXCEPT ![key] = Lpush(r[key], new)]]

\* (mutation of Extend) the new Items are not appended
ExtendDropped(seen, new) == seen

\* self.seen_tweets += new_tweets
Extend(seen, new) == seen \o new

\* one call of get_new_tweets() by process p, with tw the list `tweets` of
\* line 87 for the page served, as the record of what it leaves: the
\* exception it raised (or None), the fields and the stores
Outcome(e, sn, t, d, sv, r, ret) ==
    [exc |-> e, seen_tweets |-> sn, tweets |-> t, disk |-> d,
     saved |-> sv, rdb |-> r, ret |-> ret]

\* (mutation of FetchAborted) the database is opened "w+" before the fetch
FetchAbortedTruncating(p, u) ==
    Outcome(u, seen_tweets[p], <<>>,
            IF database[p] = None THEN disk
            ELSE [disk EXCEPT ![database[p]] = Written(<<>>)],
            saved, rdb, <<>>)

\* urlopen raises at line 75: nothing of lines 76-99 runs
FetchAborted(p, u) == Outcome(u, seen_tweets[p], <<>>, disk, saved, rdb, <<>>)

Cycle(p, fetched, tw, fileok, redisok) ==
    LET u == Urlopen(fetched)
        n == NewTweets(tw, seen_tweets[p])
        seen1 == Extend(seen_tweets[p], n.value)
        f == SaveFile(database[p], disk, saved, seen1, fileok)
        c == PushCache(redis[p], redis_key[p], rdb, n.value, redisok)
    IN IF u # None THEN FetchAborted(p, u)
       ELSE IF n.exc # None THEN Outcome(n.exc, seen_tweets[p], tw, disk, saved, rdb, <<>>)
       ELSE IF f.exc # None THEN Outcome(f.exc, seen1, tw, disk, saved, rdb, <<>>)
       ELSE IF c.exc # None THEN Outcome(c.exc, seen1, tw, f.disk, f.saved, rdb, <<>>)
       ELSE Outcome(None, seen1, tw, f.disk, f.saved, c.rdb, n.value)

\* watch() calling get_new_tweets() inside watch_every's loop, the page
\* served being one whose extracted list is in TW: an exception passes
\* through watch() and watch_every(), which catch nothing, and ends the
\* process
GetNewTweetsFrom(p, TW) ==
    /\ pc[p] = "loop"
    /\ cycles[p] < MaxCycles
    /\ \E fetched \in BOOLEAN :
       \E tw \in IF fetched THEN TW ELSE {<<>>} :
       \* an outcome of a store that is never used is not a choice
       \E fileok \in IF fetched /\ database[p] # None THEN BOOLEAN ELSE {TRUE} :
       \E redisok \in IF fetched /\ redis[p] # None THEN BOOLEAN ELSE {TRUE} :
          /\ LET c == Cycle(p, fetched, tw, fileok, redisok)
             IN /\ seen_tweets' = [seen_tweets EXCEPT ![p] = c.seen_tweets]
                /\ tweets' = [tweets EXCEPT ![p] = c.tweets]
                /\ new_tweets' = [new_tweets EXCEPT ![p] = c.ret]
                /\ disk' = c.disk
                /\ saved' = c.saved
                /\ rdb' = c.rdb
                /\ exc' = [exc EXCEPT ![p] = c.exc]
                /\ pc' = [pc EXCEPT ![p] = IF c.exc = None THEN "action" ELSE "dead"]
    /\ pos' = [pos EXCEPT ![p] = 1]
    /\ cycles' = [cycles EXCEPT ![p] = @ + 1]
    /\ UNCHANGED <<failed, skipped, page>>
    /\ UNCHANGED <<args, database, redis, redis_key, sent, restarts>>

\* any page of the watched URL may be served
GetNewTweets(p) == GetNewTweetsFrom(p, Extracted(args[p].cls))

\* ------------------------------------------------------- watch, watch_every
\* (mutation of Action) the Items are passed on from the last to the first
ActionReversed(p) ==
    /\ pc[p] = "action"
    /\ pos[p] <= Len(new_tweets[p])
    /\ sent' = [sent EXCEPT ![p] =
                   Append(@, new_tweets[p][Len(new_tweets[p]) + 1 - pos[p]])]
    /\ pos' = [pos EXCEPT ![p] = @ + 1]
    /\ UNCHANGED <<failed, skipped, page>>
    /\ UNCHANGED <<args, pc, database, redis, redis_key, seen_tweets, tweets,
                   new_tweets, exc, disk, rdb, saved, cycles, restarts>>

\* self.action(new_tweet) returns
Action(p) ==
    /\ pc[p] = "action"
    /\ pos[p] <= Len(new_tweets[p])
    /\ sent' = [sent EXCEPT ![p] = Append(@, new_tweets[p][pos[p]])]
    /\ pos' = [pos EXCEPT ![p] = @ + 1]
    /\ UNCHANGED <<failed, skipped, page>>
    /\ UNCHANGED <<args, pc, database, redis, redis_key, seen_tweets, tweets,
                   new_tweets, exc, disk, rdb, saved, cycles, restarts>>

\* self.action(new_tweet) raises: nothing catches it
ActionRaises(p) ==
    /\ pc[p] = "action"
    /\ pos[p] <= Len(new_tweets[p])
    /\ sent' = [sent EXCEPT ![p] = Append(@, new_tweets[p][pos[p]])]
    /\ exc' = [exc EXCEPT ![p] = "ActionError"]
    /\ pc' = [pc EXCEPT ![p] = "dead"]
    /\ failed' = [failed EXCEPT ![p] =
                     IF database[p] = None THEN @
                     ELSE @ \cup {new_tweets[p][pos[p]].link}]
    /\ skipped' = [skipped EXCEPT ![p] =
                      IF database[p] = None THEN @
                      ELSE @ \cup {new_tweets[p][k].link :
                                      k \in (pos[p] + 1)..Len(new_tweets[p])}]
    /\ UNCHANGED page
    /\ UNCHANGED <<args, database, redis, redis_key, seen_tweets, tweets,
                   new_tweets, pos, disk, rdb, saved, cycles, restarts>>

\* the for loop of watch() is done; time.sleep(seconds) returns
Sleep(p) ==
    /\ pc[p] = "action"
    /\ pos[p] > Len(new_tweets[p])
    /\ pc' = [pc EXCEPT ![p] = "loop"]
    /\ tweets' = [tweets EXCEPT ![p] = <<>>]
    /\ new_tweets' = [new_tweets EXCEPT ![p] = <<>>]
    /\ pos' = [pos EXCEPT ![p] = 1]
    /\ UNCHANGED <<failed, skipped, page>>
    /\ UNCHANGED <<args, database, redis, redis_key, seen_tweets,
                   sent, exc, disk, rdb, saved, cycles, restarts>>

\* the script is run again after its process ended: a new process, with
\* nothing in memory; the file and the redis lists are what they were
Restart(p) ==
    /\ pc[p] = "dead"
    /\ restarts[p] < MaxRestarts
    /\ pc' = [pc EXCEPT ![p] = "start"]
    /\ database' = [database EXCEPT ![p] = None]
    /\ redis' = [redis EXCEPT ![p] = None]
    /\ redis_key' = [redis_key EXCEPT ![p] = ""]
    /\ seen_tweets' = [seen_tweets EXCEPT ![p] = <<>>]
    /\ tweets' = [tweets EXCEPT ![p] = <<>>]
    /\ new_tweets' = [new_tweets EXCEPT ![p] = <<>>]
    /\ pos' = [pos EXCEPT ![p] = 1]
    /\ sent' = [sent EXCEPT ![p] = <<>>]
    /\ exc' = [exc EXCEPT ![p] = None]
    /\ restarts' = [restarts EXCEPT ![p] = @ + 1]
    /\ UNCHANGED <<failed, skipped, page>>
    /\ UNCHANGED <<args, disk, rdb, saved, cycles>>

\* ------------------------------------------------------------ specification
\* the processes in run: one watcher script
Running == {1}

Init ==
    /\ args \in [Procs -> UNION {ArgSet(p) : p \in Procs}]
    /\ \A p \in Procs : args[p] \in ArgSet(p)
    /\ \A p \in Procs \ Running : args[p] = CHOOSE a \in ArgSet(p) : TRUE
    /\ pc = [p \in Procs |-> IF p \in Running THEN "start" ELSE "off"]
    /\ database = [p \in Procs |-> None]
    /\ redis = [p \in Procs |-> None]
    /\ redis_key = [p \in Procs |-> ""]
    /\ seen_tweets = [p \in Procs |-> <<>>]
    /\ tweets = [p \in Procs |-> <<>>]
    /\ new_tweets = [p \in Procs |-> <<>>]
    /\ pos = [p \in Procs |-> 1]
    /\ failed = [p \in Procs |-> {}]
    /\ skipped = [p \in Procs |-> {}]
    /\ page = [p \in Procs |-> EmptyPage]
    /\ sent = [p \in Procs |-> <<>>]
    /\ exc = [p \in Procs |-> None]
    /\ disk = [f \in Paths |-> NoFile]
    /\ rdb = [k \in Keys |-> <<>>]
    /\ saved = [f \in Paths |-> <<>>]
    /\ cycles = [p \in Procs |-> 0]
    /\ restarts = [p \in Procs |-> 0]

Next ==
    \E p \in Procs :
        \/ Construct(p)
        \/ GetNewTweets(p)
        \/ Action(p)
        \/ ActionRaises(p)
        \/ Sleep(p)
        \/ Restart(p)

Spec == Init /\ [][Next]_vars

\* ------------------------------------------------- the extraction by itself
\* lines 79-87 of get_new_tweets on one given page: the pages have up to
\* MaxPageNodes nodes of each kind, with two texts under the watcher's class
ExtractPNodes(cls) ==
    {[class |-> <<P_class(cls)>>, text |-> "t1"],
     [class |-> <<P_class(cls)>>, text |-> "t2"],
     [class |-> <<"other">>, text |-> "t3"]}

ExtractPages(cls) ==
    {[p |-> ps, a |-> as] : ps \in SeqUpTo(ExtractPNodes(cls), MaxPageNodes),
                            as \in SeqUpTo(ANodes(cls), MaxPageNodes)}

ExtractPage(p) ==
    /\ pc[p] = "page"
    /\ tweets' = [tweets EXCEPT ![p] = Tweets(page[p], args[p].cls)]
    /\ pc' = [pc EXCEPT ![p] = "extracted"]
    /\ UNCHANGED <<args, database, redis, redis_key, seen_tweets, new_tweets, pos,
                   sent, exc, disk, rdb, saved, cycles, restarts, failed,
                   skipped, page>>

InitExtract ==
    /\ \E a \in {WatcherArgs("UserWatcher", "alice", None, None, None),
                 WatcherArgs("SearchWatcher", "cats", None, None, None)} :
       \E pg \in ExtractPages(a.cls) :
          /\ args = [p \in Procs |-> a]
          /\ page = [p \in Procs |-> IF p \in Running THEN pg ELSE EmptyPage]
    /\ pc = [p \in Procs |-> IF p \in Running THEN "page" ELSE "off"]
    /\ database = [p \in Procs |-> None]
    /\ redis = [p \in Procs |-> None]
    /\ redis_key = [p \in Procs |-> ""]
    /\ seen_tweets = [p \in Procs |-> <<>>]
    /\ tweets = [p \in Procs |-> <<>>]
    /\ new_tweets = [p \in Procs |-> <<>>]
    /\ pos = [p \in Procs |-> 1]
    /\ failed = [p \in Procs |-> {}]
    /\ skipped = [p \in Procs |-> {}]
    /\ sent = [p \in Procs |-> <<>>]
    /\ exc = [p \in Procs |-> None]
    /\ disk = [f \in Paths |-> NoFile]
    /\ rdb = [k \in Keys |-> <<>>]
    /\ saved = [f \in Paths |-> <<>>]
    /\ cycles = [p \in Procs |-> 0]
    /\ restarts = [p \in Procs |-> 0]

NextExtract == \E p \in Procs : ExtractPage(p)

SpecExtract == InitExtract /\ [][NextExtract]_vars

\* ------------------------------------------- two watchers on one redis list
\* two watcher scripts run at once against the same redis server; each has
\* redis configured, and both work on the list at "tweets" (the key of
\* every watcher).  The pages they are served have at most one <p> node
\* and one <a> node, and the scripts are not restarted.
SharedPages(cls) ==
    {[p |-> ps, a |-> as] : ps \in SeqUpTo(PNodes(cls), 1), as \in SeqUpTo(ANodes(cls), 1)}

UserShared == {Tweets(pg, "UserWatcher") : pg \in SharedPages("UserWatcher")}

SearchShared == {Tweets(pg, "SearchWatcher") : pg \in SharedPages("SearchWatcher")}

SharedTweets(cls) == IF cls = "UserWatcher" THEN UserShared ELSE SearchShared

InitTwo ==
    /\ args \in [Procs -> {WatcherArgs("UserWatcher", "alice", None, "url", None),
                           WatcherArgs("SearchWatcher", "cats", None, None, "settings")}]
    /\ args[1].cls = "UserWatcher"
    /\ pc = [p \in Procs |-> "start"]
    /\ database = [p \in Procs |-> None]
    /\ redis = [p \in Procs |-> None]
    /\ redis_key = [p \in Procs |-> ""]
    /\ seen_tweets = [p \in Procs |-> <<>>]
    /\ tweets = [p \in Procs |-> <<>>]
    /\ new_tweets = [p \in Procs |-> <<>>]
    /\ pos = [p \in Procs |-> 1]
    /\ failed = [p \in Procs |-> {}]
    /\ skipped = [p \in Procs |-> {}]
    /\ page = [p \in Procs |-> EmptyPage]
    /\ sent = [p \in Procs |-> <<>>]
    /\ exc = [p \in Procs |-> None]
    /\ disk = [f \in Paths |-> NoFile]
    /\ rdb = [k \in Keys |-> <<>>]
    /\ saved = [f \in Paths |-> <<>>]
    /\ cycles = [p \in Procs |-> 0]
    /\ restarts = [p \in Procs |-> 0]

NextTwo ==
    \E p \in Procs :
        \/ Construct(p)
        \/ GetNewTweetsFrom(p, SharedTweets(args[p].cls))
        \/ Action(p)
        \/ Sleep(p)

SpecTwo == InitTwo /\ [][NextTwo]_vars

\* ---------------------------------------------------------------- the claims
\* steps of process p: the constructor returned; get_new_tweets() returned
Constructed(p) == pc[p] = "start" /\ pc'[p] = "loop"

Returned(p) == pc[p] = "loop" /\ pc'[p] = "action"

\* the links of the entries of a list that have one
Links(lst) == {lst[i].link : i \in {j \in DOMAIN lst : HasLink(lst[j])}}

\* no two entries of lst that have a link have the same one
DistinctLinks(lst) ==
    \A i, j \in DOMAIN lst :
        (i # j /\ HasLink(lst[i]) /\ HasLink(lst[j])) => lst[i].link # lst[j].link

\* C1: no two Items a watcher has passed to its action have the same link,
\* whatever pages its cycles were served.
NoDuplicateDispatch == \A p \in Procs : DistinctLinks(sent[p])

\* C2: when get_new_tweets() returns, its result is the extracted Items
\* whose link is no link of seen_tweets as it was at the call, in extraction
\* order, and seen_tweets is what it was followed by the result.
ReturnsTheUnseen ==
    [][\A p \in Procs :
          Returned(p) =>
             /\ new_tweets'[p] =
                   SelectSeq(tweets'[p], LAMBDA t : t.link \notin Links(seen_tweets[p]))
             /\ seen_tweets'[p] = seen_tweets[p] \o new_tweets'[p]]_vars

\* seen = [/1], page = [/1, /2]: the result is [/2] and seen = [/1, /2]
ReturnsTheUnseenWitness ==
    \E p \in Procs :
        /\ pc[p] = "action"
        /\ Len(tweets[p]) = 2
        /\ tweets[p][1].link # tweets[p][2].link
        /\ new_tweets[p] = <<tweets[p][2]>>
        /\ Len(seen_tweets[p]) = 2
        /\ seen_tweets[p][1].link = tweets[p][1].link
        /\ seen_tweets[p][2] = tweets[p][2]

\* C3: after a completed cycle seen_tweets holds no two entries with the
\* same link.
SeenHasNoDuplicates ==
    \A p \in Procs : pc[p] = "action" => DistinctLinks(seen_tweets[p])

\* C4: a get_new_tweets() whose fetch fails leaves seen_tweets, the snapshot
\* files and the redis lists as they were, and no Item goes to the action.
FetchFailureIsolation ==
    [][\A p \in Procs :
          (pc[p] = "loop" /\ exc'[p] = "URLError") =>
             /\ seen_tweets' = seen_tweets
             /\ disk' = disk
             /\ rdb' = rdb
             /\ sent' = sent
             /\ new_tweets'[p] = <<>>
             /\ pc'[p] # "action"]_vars

FetchFailureWitness ==
    \E p \in Procs :
        /\ exc[p] = "URLError"
        /\ database[p] # None
        /\ redis[p] # None
        /\ seen_tweets[p] # <<>>
        /\ disk[database[p]].exists

\* C5: when get_new_tweets() returns, a configured database file holds the
\* whole of seen_tweets, and a configured redis list has gained one entry
\* for each Item of the result (the Item's str, the last Item at the head)
\* and nothing else; a store that is not configured is untouched.
WriteThrough ==
    [][\A p \in Procs :
          Returned(p) =>
             /\ database[p] # None =>
                   /\ disk'[database[p]].exists
                   /\ PickleLoad(disk'[database[p]].blob) = seen_tweets'[p]
                   /\ \A f \in Paths \ {database[p]} : disk'[f] = disk[f]
             /\ database[p] = None => disk' = disk
             /\ redis[p] # None =>
                   /\ rdb'[redis_key[p]] =
                         Reverse([i \in DOMAIN new_tweets'[p] |-> TweetStr(new_tweets'[p][i])])
                         \o rdb[redis_key[p]]
                   /\ \A k \in Keys \ {redis_key[p]} : rdb'[k] = rdb[k]
             /\ redis[p] = None => rdb' = rdb]_vars

\* both stores, something seen before, one new Item
WriteThroughWitness ==
    \E p \in Procs :
        /\ pc[p] = "action"
        /\ database[p] # None
        /\ redis[p] # None
        /\ Len(new_tweets[p]) = 1
        /\ Len(seen_tweets[p]) = 2
        /\ Len(rdb[redis_key[p]]) = 2

\* C6: a watcher constructed on a database file that exists starts with
\* the sequence the last dump to that file was made from, so a later
\* get_new_tweets() returns no Item whose link that file holds; when the
\* file does not exist nothing is loaded from it.
FileRoundTrip ==
    [][\A p \in Procs :
          /\ (Constructed(p) /\ database'[p] # None) =>
                LET f == database'[p]
                IN /\ disk[f].exists =>
                         /\ Len(seen_tweets'[p]) >= Len(saved[f])
                         /\ SubSeq(seen_tweets'[p], 1, Len(saved[f])) = saved[f]
                   /\ ~disk[f].exists =>
                         seen_tweets'[p] =
                            IF redis'[p] # None THEN rdb[redis_key'[p]] ELSE <<>>
          /\ (Returned(p) /\ database[p] # None) =>
                \A i \in DOMAIN new_tweets'[p] :
                    new_tweets'[p][i].link \notin Links(saved[database[p]])]_vars

\* after a restart on a file saved with two Items, a page showing both
\* gives nothing new
FileRoundTripWitness ==
    \E p \in Procs :
        /\ restarts[p] = 1
        /\ pc[p] = "action"
        /\ database[p] # None
        /\ redis[p] = None
        /\ Len(tweets[p]) = 2
        /\ tweets[p][1].link # tweets[p][2].link
        /\ new_tweets[p] = <<>>
        /\ Len(seen_tweets[p]) = 2

\* C7: after a restart of a watcher with the redis list only, every entry
\* of seen_tweets loaded from the list can be compared with an Item by its
\* link, and the cycle's membership tests do not fail.
CacheRoundTrip ==
    \A p \in Procs :
        (restarts[p] > 0 /\ redis[p] # None /\ database[p] = None) =>
           /\ \A i \in DOMAIN seen_tweets[p] : HasLink(seen_tweets[p][i])
           /\ exc[p] # "AttributeError"

\* C8: the redis key of a watcher is its username or its search term.
CacheKeyIsDiscriminant ==
    \A p \in Procs : redis[p] # None => redis_key[p] = args[p].name

\* C9: a fetch that fails does not end watch_every's loop.
FetchFailureRetried ==
    \A p \in Procs : exc[p] = "URLError" => pc[p] # "dead"

\* C10: with both stores configured, a failed file write does not keep the
\* cycle from pushing its new Items to redis and from going on to the
\* action, and a failed push does not keep it from the file write and from
\* going on to the action.
SaveFailureIsolated ==
    [][\A p \in Procs :
          (pc[p] = "loop" /\ database[p] # None /\ redis[p] # None) =>
             /\ exc'[p] = "IOError" =>
                   /\ Len(rdb'[redis_key[p]]) - Len(rdb[redis_key[p]])
                         = Len(seen_tweets'[p]) - Len(seen_tweets[p])
                   /\ pc'[p] = "action"
             /\ exc'[p] = "ConnectionError" =>
                   /\ PickleLoad(disk'[database[p]].blob) = seen_tweets'[p]
                   /\ pc'[p] = "action"]_vars

\* x is an entry of lst
InList(lst, x) == \E i \in DOMAIN lst : lst[i] = x

\* C11: when the action raises for an Item nothing is rolled back: the Item
\* is an entry of seen_tweets, of a configured database file and (as its
\* str) of a configured redis list, and the step changes none of them; no
\* Item with the link of an Item the action raised for is passed to the
\* action afterwards, by a process restarted on the database file either.
SinkFailureKept ==
    [][\A p \in Procs :
          /\ (pc[p] = "action" /\ exc'[p] = "ActionError") =>
                LET t == new_tweets[p][pos[p]]
                IN /\ seen_tweets'[p] = seen_tweets[p]
                   /\ disk' = disk
                   /\ rdb' = rdb
                   /\ InList(seen_tweets'[p], t)
                   /\ database[p] # None =>
                         /\ disk'[database[p]].exists
                         /\ InList(PickleLoad(disk'[database[p]].blob), t)
                   /\ redis[p] # None => InList(rdb'[redis_key[p]], TweetStr(t))
          /\ Len(sent'[p]) = Len(sent[p]) + 1 =>
                sent'[p][Len(sent'[p])].link \notin failed[p]]_vars

\* the action raised for an Item, the script was restarted on its database
\* file, and a page showing that Item again gives nothing new
SinkFailureKeptWitness ==
    \E p \in Procs :
        /\ restarts[p] = 1
        /\ pc[p] = "action"
        /\ database[p] # None
        /\ failed[p] # {}
        /\ \E i \in DOMAIN tweets[p] : tweets[p][i].link \in failed[p]
        /\ new_tweets[p] = <<>>
        /\ sent[p] = <<>>

\* C12: a constructor call with both redis_url and redis_settings ends in
\* ValueError: no connection is chosen, nothing is loaded into seen_tweets,
\* no field of the watcher is set and no store is touched.  With one of the
\* two the watcher has the connection made from it; with neither it has no
\* connection and loads nothing from redis.
ConflictingCacheConfig ==
    [][\A p \in Procs :
          (pc[p] = "start" /\ pc'[p] # "start") =>
             LET a == args[p]
             IN /\ (a.redis_url # None /\ a.redis_settings # None) =>
                      /\ exc'[p] = "ValueError"
                      /\ pc'[p] = "dead"
                      /\ redis'[p] = None
                      /\ database'[p] = None
                      /\ redis_key'[p] = ""
                      /\ seen_tweets'[p] = <<>>
                      /\ disk' = disk
                      /\ rdb' = rdb
                /\ (a.redis_url # None /\ a.redis_settings = None) =>
                      /\ exc'[p] = None
                      /\ pc'[p] = "loop"
                      /\ redis'[p] = "from_url"
                /\ (a.redis_url = None /\ a.redis_settings # None) =>
                      /\ exc'[p] = None
                      /\ pc'[p] = "loop"
                      /\ redis'[p] = "StrictRedis"
                /\ (a.redis_url = None /\ a.redis_settings = None) =>
                      /\ exc'[p] = None
                      /\ pc'[p] = "loop"
                      /\ redis'[p] = None
                      /\ seen_tweets'[p] = LoadFile(a.database, disk)]_vars

\* the script that passes both has ended in ValueError
ConflictingCacheConfigWitness ==
    \E p \in Procs :
        /\ args[p].redis_url # None
        /\ args[p].redis_settings # None
        /\ exc[p] = "ValueError"
        /\ pc[p] = "dead"
        /\ seen_tweets[p] = <<>>

\* the link an entry of seen_tweets records: a Tweet's link, or the link
\* that the str of a Tweet ends with
RecordedLink(x) == IF HasLink(x) THEN x.link ELSE SubSeq(x.value, 7, Len(x.value))

RecordedLinks(lst) == {RecordedLink(lst[i]) : i \in DOMAIN lst}

\* C13: a call of get_new_tweets(), returning or raising, leaves every
\* entry of seen_tweets where it was and removes none; seen_tweets is as
\* long as before exactly when the page gave no Item with a link that
\* seen_tweets did not record.
MonotonicSeenGrowth ==
    [][\A p \in Procs :
          (pc[p] = "loop" /\ cycles'[p] = cycles[p] + 1) =>
             /\ Len(seen_tweets'[p]) >= Len(seen_tweets[p])
             /\ SubSeq(seen_tweets'[p], 1, Len(seen_tweets[p])) = seen_tweets[p]
             /\ (Len(seen_tweets'[p]) = Len(seen_tweets[p]))
                   <=> (\A i \in DOMAIN tweets'[p] :
                           tweets'[p][i].link \in RecordedLinks(seen_tweets[p]))]_vars

\* the Tweets among the entries of a list
TweetsOf(lst) == {lst[i] : i \in {j \in DOMAIN lst : HasLink(lst[j])}}

\* C14: for the Tweets A and B that a watcher holds (extracted, seen, new
\* or sent), A == B is true exactly when A.link = B.link, whatever the
\* other fields are; and for a list of Tweets, `A in list` is true exactly
\* when the list has an entry with A's link.
IdentityLaw ==
    \A p \in Procs :
        LET held == TweetsOf(tweets[p]) \cup TweetsOf(seen_tweets[p])
                      \cup TweetsOf(new_tweets[p]) \cup TweetsOf(sent[p])
        IN /\ \A A, B \in held : (TweetEq(A, B) = "True") <=> (A.link = B.link)
           /\ \A A, B \in held : TweetEq(A, B) \in {"True", "False"}
           /\ (\A i \in DOMAIN seen_tweets[p] : HasLink(seen_tweets[p][i])) =>
                 \A A \in held :
                     (ListContains(seen_tweets[p], A) = "True")
                        <=> (A.link \in Links(seen_tweets[p]))

\* a page shows a seen post under another date label: the extracted Tweet
\* differs from the seen one and is not new
IdentityLawWitness ==
    \E p \in Procs :
        /\ pc[p] = "action"
        /\ Len(seen_tweets[p]) = 1
        /\ HasLink(seen_tweets[p][1])
        /\ Len(tweets[p]) = 1
        /\ tweets[p][1].link = seen_tweets[p][1].link
        /\ tweets[p][1].date # seen_tweets[p][1].date
        /\ new_tweets[p] = <<>>

RECURSIVE CountClass(_, _)
\* how many nodes of a list carry the class marker
CountClass(nodes, marker) ==
    IF nodes = <<>> THEN 0
    ELSE (IF HasClass(Head(nodes), marker) THEN 1 ELSE 0)
         + CountClass(Tail(nodes), marker)

RECURSIVE NthOfClass(_, _, _)
\* the i-th node of a list that carries the class marker
NthOfClass(nodes, marker, i) ==
    IF HasClass(Head(nodes), marker)
    THEN (IF i = 1 THEN Head(nodes) ELSE NthOfClass(Tail(nodes), marker, i - 1))
    ELSE NthOfClass(Tail(nodes), marker, i)

\* C15: from a page with m <p> nodes and n <a> nodes of the watcher's
\* classes the extraction builds min(m, n) Tweets and raises nothing; the
\* i-th Tweet has the text of the i-th such <p> node and the href and the
\* title of the i-th such <a> node.
PairingTruncation ==
    \A p \in Procs :
        pc[p] = "extracted" =>
           LET pm == P_class(args[p].cls)
               am == A_class(args[p].cls)
               m == CountClass(page[p].p, pm)
               n == CountClass(page[p].a, am)
           IN /\ Len(tweets[p]) = IF m < n THEN m ELSE n
              /\ exc[p] = None
              /\ \A i \in DOMAIN tweets[p] :
                    LET pn == NthOfClass(page[p].p, pm, i)
                        an == NthOfClass(page[p].a, am, i)
                    IN /\ tweets[p][i].text = pn.text
                       /\ tweets[p][i].link = <<"https://twitter.com">> \o an.href
                       /\ tweets[p][i].username = an.href[2]
                       /\ tweets[p][i].date = an.title

\* three <p> nodes and two <a> nodes of the class: two Tweets
PairingTruncationWitness ==
    \E p \in Procs :
        /\ pc[p] = "extracted"
        /\ CountClass(page[p].p, P_class(args[p].cls)) = 3
        /\ CountClass(page[p].a, A_class(args[p].cls)) = 2
        /\ Len(tweets[p]) = 2
        /\ tweets[p][1].text # tweets[p][2].text

\* the last n entries of a list
LastN(lst, n) == SubSeq(lst, Len(lst) - n + 1, Len(lst))

\* C16: in watch_every the Items a get_new_tweets() call returned go to the
\* action one at a time in the order of the result, each once: while the
\* loop is at the action the Items passed on in this cycle are the first
\* pos - 1 of the result; every one of them is by then in seen_tweets, in a
\* configured database file and, as its str, in a configured redis list;
\* the sleep is reached only when every Item of the result has been passed
\* on; and a fetch starts only from the top of the loop, after the sleep.
DispatchOrdering ==
    [][\A p \in Procs :
          /\ pc'[p] = "action" =>
                /\ pos'[p] \in 1..(Len(new_tweets'[p]) + 1)
                /\ Len(sent'[p]) >= pos'[p] - 1
                /\ LastN(sent'[p], pos'[p] - 1) = SubSeq(new_tweets'[p], 1, pos'[p] - 1)
                /\ \A i \in DOMAIN new_tweets'[p] :
                      /\ InList(seen_tweets'[p], new_tweets'[p][i])
                      /\ database'[p] # None =>
                            InList(PickleLoad(disk'[database'[p]].blob), new_tweets'[p][i])
                      /\ redis'[p] # None =>
                            InList(rdb'[redis_key'[p]], TweetStr(new_tweets'[p][i]))
          /\ Len(sent'[p]) > Len(sent[p]) =>
                /\ pc[p] = "action"
                /\ sent'[p] = Append(sent[p], new_tweets[p][pos[p]])
                /\ seen_tweets' = seen_tweets /\ disk' = disk /\ rdb' = rdb
          /\ (pc[p] = "action" /\ pc'[p] = "loop") =>
                /\ pos[p] = Len(new_tweets[p]) + 1
                /\ LastN(sent[p], Len(new_tweets[p])) = new_tweets[p]
                /\ sent'[p] = sent[p]
          /\ cycles'[p] # cycles[p] =>
                /\ pc[p] = "loop"
                /\ sent'[p] = sent[p]]_vars

\* a watcher with both stores has passed on the two Items of a result and
\* is about to sleep
DispatchOrderingWitness ==
    \E p \in Procs :
        /\ pc[p] = "action"
        /\ database[p] # None
        /\ redis[p] # None
        /\ Len(new_tweets[p]) = 2
        /\ new_tweets[p][1] # new_tweets[p][2]
        /\ pos[p] = 3
        /\ sent[p] = new_tweets[p]

\* C17: a get_new_tweets() call whose fetch and store connections work and
\* whose page gives no Item with a link that seen_tweets does not record
\* returns the empty list: nothing is raised, seen_tweets and the redis
\* lists stay as they were, nothing goes to the action, and the loop goes
\* on; with no store, the file, redis, or both.
EmptyCycleCompletes ==
    [][\A p \in Procs :
          (/\ pc[p] = "loop"
           /\ cycles'[p] = cycles[p] + 1
           /\ exc'[p] \notin {"URLError", "IOError", "ConnectionError", "AttributeError"}
           /\ \A i \in DOMAIN tweets'[p] :
                 tweets'[p][i].link \in RecordedLinks(seen_tweets[p])) =>
             /\ exc'[p] = None
             /\ pc'[p] = "action"
             /\ new_tweets'[p] = <<>>
             /\ seen_tweets'[p] = seen_tweets[p]
             /\ rdb' = rdb
             /\ sent' = sent]_vars

\* C18: the constructor leaves in seen_tweets the list of the database
\* file (when the database is set and the file exists) followed by the
\* whole redis list at the key (when redis is set), every entry kept; and a
\* get_new_tweets() call that gets to the file write dumps seen_tweets as
\* it is, the entries loaded twice included.
LoadConcatenation ==
    [][\A p \in Procs :
          /\ Constructed(p) =>
                seen_tweets'[p] =
                   (IF database'[p] # None /\ disk[database'[p]].exists
                    THEN saved[database'[p]] ELSE <<>>)
                   \o (IF redis'[p] # None THEN rdb[redis_key'[p]] ELSE <<>>)
          /\ (/\ pc[p] = "loop"
              /\ cycles'[p] = cycles[p] + 1
              /\ database[p] # None
              /\ exc'[p] \notin {"URLError", "AttributeError", "IOError"}) =>
                /\ disk'[database[p]].exists
                /\ PickleLoad(disk'[database[p]].blob) = seen_tweets'[p]
                /\ SubSeq(seen_tweets'[p], 1, Len(seen_tweets[p])) = seen_tweets[p]]_vars

\* a watcher with both stores was restarted: it loaded a Tweet from the
\* file and the str of the same Tweet from redis, and its next cycle has
\* written both to the file
LoadConcatenationWitness ==
    \E p \in Procs :
        /\ restarts[p] = 1
        /\ cycles[p] = 2
        /\ database[p] # None
        /\ redis[p] # None
        /\ Len(seen_tweets[p]) = 2
        /\ HasLink(seen_tweets[p][1])
        /\ seen_tweets[p][2] = TweetStr(seen_tweets[p][1])
        /\ PickleLoad(disk[database[p]].blob) = seen_tweets[p]

\* C19: when the action raises for the Item at a position of the result,
\* the Items behind it are entries of seen_tweets, of a configured database
\* file and (as their str) of a configured redis list, and the process ends
\* without passing them on; no Item with the link of one of them is passed
\* on afterwards, by a process restarted on the database file either; and
\* every Item a process has passed on is an entry of its seen_tweets.
LostNotifications ==
    [][\A p \in Procs :
          /\ (pc[p] = "action" /\ exc'[p] = "ActionError") =>
                /\ pc'[p] = "dead"
                /\ sent'[p] = Append(sent[p], new_tweets[p][pos[p]])
                /\ \A k \in (pos[p] + 1)..Len(new_tweets[p]) :
                      LET t == new_tweets[p][k]
                      IN /\ InList(seen_tweets'[p], t)
                         /\ database[p] # None =>
                               InList(PickleLoad(disk'[database[p]].blob), t)
                         /\ redis[p] # None => InList(rdb'[redis_key[p]], TweetStr(t))
          /\ pc[p] = "dead" => Len(sent'[p]) <= Len(sent[p])
          /\ Len(sent'[p]) = Len(sent[p]) + 1 =>
                sent'[p][Len(sent'[p])].link \notin skipped[p]
          /\ \A i \in DOMAIN sent'[p] : InList(seen_tweets'[p], sent'[p][i])]_vars

\* the action raised for the first of two new Items, the script was
\* restarted on its database file, and a page showing the second Item
\* gives nothing new
LostNotificationsWitness ==
    \E p \in Procs :
        /\ restarts[p] = 1
        /\ pc[p] = "action"
        /\ database[p] # None
        /\ \E i \in DOMAIN tweets[p] :
              /\ tweets[p][i].link \in skipped[p]
              /\ tweets[p][i].link \notin failed[p]
        /\ new_tweets[p] = <<>>
        /\ sent[p] = <<>>

\* C20: with two watchers at work on one redis list, in every interleaving
\* of their steps, a step only adds entries at the head of a list and
\* leaves every entry that was there in place; the Items a returning
\* get_new_tweets() call found are, as their str, in the list; a watcher's
\* seen_tweets is not changed by a cycle of the other watcher, and a cycle
\* of its own adds to it only Tweets extracted from its own page.
SharedCacheAppendOnly ==
    [][/\ \A k \in Keys :
             /\ Len(rdb'[k]) >= Len(rdb[k])
             /\ LastN(rdb'[k], Len(rdb[k])) = rdb[k]
       /\ \A p \in Procs :
             /\ Returned(p) =>
                   \A i \in DOMAIN new_tweets'[p] :
                       InList(rdb'[redis_key[p]], TweetStr(new_tweets'[p][i]))
             /\ (pc[p] # "start" /\ \E q \in Procs \ {p} : cycles'[q] # cycles[q]) =>
                   seen_tweets'[p] = seen_tweets[p]
             /\ pc[p] = "loop" =>
                   /\ SubSeq(seen_tweets'[p], 1, Len(seen_tweets[p])) = seen_tweets[p]
                   /\ \A i \in (Len(seen_tweets[p]) + 1)..Len(seen_tweets'[p]) :
                         InList(tweets'[p], seen_tweets'[p][i])]_vars

\* both watchers were constructed on the empty list and each has pushed an
\* Item of its own: the list holds both, and neither watcher has seen the
\* Item of the other
SharedCacheAppendOnlyWitness ==
    /\ redis_key[1] = redis_key[2]
    /\ redis[1] # None
    /\ Len(seen_tweets[1]) = 1
    /\ Len(seen_tweets[2]) = 1
    /\ HasLink(seen_tweets[1][1])
    /\ HasLink(seen_tweets[2][1])
    /\ seen_tweets[1][1].link # seen_tweets[2][1].link
    /\ rdb[redis_key[1]] = <<TweetStr(seen_tweets[2][1]), TweetStr(seen_tweets[1][1])>>
    /\ pc[1] = "action"
    /\ pc[2] = "action"
====
